---------------------------- MODULE Spec2Model ----------------------------
(***************************************************************************)
(* A model of py_gnome's release objects (gnome/spill/release.py): the     *)
(* base Release, PointLineRelease and SpatialRelease, together with the    *)
(* stepping loop that drives them.                                         *)
(*                                                                         *)
(* Conventions.  Python's None is the empty sequence and a value v that    *)
(* may be None is carried as <<v>>.  Times are integer seconds.  Floats    *)
(* that the code divides (masses, weights, interpolated counts) are exact  *)
(* rationals <<n, d>> in lowest terms with d > 0.  An operation that       *)
(* raises records the exception's name in last.err and keeps whatever it   *)
(* had already assigned, as the interpreter does.  The code is read with   *)
(* Python 3 semantics (None < 0 raises TypeError) and assert enabled.      *)
(***************************************************************************)
EXTENDS Integers, Sequences, FiniteSets, TLC

\* ------------------------------------------------------------------ bounds
MaxStart == 1
MaxEnd == 3
MaxElems == 3
MaxRate == 2
MaxMass == 1
MaxTs == 2

\* The driver's arrays hold one row more than the largest total given, and
\* its clock runs to the latest end of a release.
MaxRows == MaxElems + 1
MaxClock == MaxStart + MaxEnd

\* --------------------------------------------------------- program constants
DefaultNumElements == 1000

\* ------------------------------------------------------------- Python values
None == <<>>
Some(v) == <<v>>
IsNone(x) == x = None
Val(x) == x[1]

Classes == {"Release", "PointLineRelease", "SpatialRelease"}

\* ----------------------------------------------------------------- rationals
RECURSIVE GCD(_, _)
GCD(a, b) == IF b = 0 THEN a ELSE GCD(b, a % b)

Abs(a) == IF a < 0 THEN -a ELSE a

\* n/d with d # 0, in lowest terms with a positive denominator
Rat(n, d) ==
    LET g == GCD(Abs(n), Abs(d))
        s == IF d < 0 THEN -1 ELSE 1
    IN  <<(s * n) \div g, (s * d) \div g>>

RatAdd(p, q) == Rat(p[1] * q[2] + q[1] * p[2], p[2] * q[2])
RatMul(p, q) == Rat(p[1] * q[1], p[2] * q[2])
RatLess(p, q) == p[1] * q[2] < q[1] * p[2]
Zero == <<0, 1>>

\* math.ceil of n/d for d > 0
CeilDiv(n, d) == IF n % d = 0 THEN n \div d ELSE (n \div d) + 1

\* int(x) of a float n/d, d > 0: truncation toward zero
TruncDiv(n, d) == IF n >= 0 THEN n \div d ELSE -((-n) \div d)

\* ------------------------------------------------------------ input domains
StartTimes == 0 .. MaxStart
EndTimes == 0 .. MaxEnd
OptStartTimes == {None} \cup {Some(t) : t \in StartTimes}
OptEndTimes == {None} \cup {Some(t) : t \in EndTimes}
NumElementsArgs == {None} \cup {Some(n) : n \in -1 .. MaxElems}
NumPerTimestepArgs == {None} \cup {Some(n) : n \in -1 .. MaxRate}
ReleaseMassArgs == {None} \cup {Some(m) : m \in -1 .. MaxMass}
TimeSteps == 1 .. MaxTs
Positions == {"A", "B"}
OptPositions == {None} \cup {Some(p) : p \in Positions}


\* -------------------------------------------------------------------- state
VARIABLES
    life,               \* "none" before construction, "live", or "failed"
    cls,                \* the class of the instance
    _num_elements,      \* Release._num_elements
    _num_per_timestep,  \* Release._num_per_timestep
    release_time,       \* Release.release_time (a plain attribute)
    _end_release_time,  \* Release._end_release_time
    _release_mass,      \* Release._release_mass
    custom_positions,   \* Release.custom_positions (a plain attribute)
    start_position,     \* PointLineRelease._start_position
    _end_position,      \* PointLineRelease._end_position
    features,           \* SpatialRelease._features: a sequence of features
    _tris,              \* SpatialRelease._tris: None or triangle areas
    _weights,           \* SpatialRelease._weights: None or triangle weights
    _prepared,          \* Release._prepared
    _mass_per_le,       \* Release._mass_per_le
    _release_ts,        \* Release._release_ts: None or [time, data]
    _pos_ts,            \* Release._pos_ts: None or [time, data]
    data,               \* the driver's element arrays, one record per row
    num_released,       \* the driver's running count of released elements
    current_time,       \* the driver's clock
    time_step,          \* the driver's timestep, None before a run
    aborted,            \* whether an exception ended the driver's run
    completed,          \* history: prepare_for_model_run has completed since
                        \* construction and the last call of rewind()
    last,               \* the last operation: its name, arguments and outcome
    nesdis,             \* the last call of NESDISRelease.load_nesdis
    plume_gen,          \* VerticalPlumeRelease.plume_gen, None without one
    _init_data,         \* InitElemsFromFile._init_data, None without one
    self_num_released   \* the instance's attribute num_released, None while
                        \* the instance has no such attribute

config == <<cls, _num_elements, _num_per_timestep, release_time,
            _end_release_time, _release_mass, custom_positions,
            start_position, _end_position, features>>
derived == <<_prepared, _mass_per_le, _release_ts, _pos_ts, _tris, _weights>>
driver == <<data, num_released, current_time, time_step, aborted, completed>>
older == <<plume_gen, _init_data, self_num_released>>
vars == <<life, config, derived, driver, last, nesdis, older>>

NoArgs == [x \in {} |-> 0]
Op(name, args, err) == [op |-> name, args |-> args, err |-> err]

\* Custom positions offered to the constructor: None, or a Python list or a
\* numpy array of no or two positions.
CustomPositions(kind, pts) == [kind |-> kind, pts |-> pts]
CustomPositionsArgs ==
    {None} \cup {Some(CustomPositions(k, p)) :
                    k \in {"list", "ndarray"}, p \in {<<>>, <<"A", "B">>}}

Init ==
    /\ life = "none"
    /\ cls = "Release"
    /\ _num_elements = None
    /\ _num_per_timestep = None
    /\ release_time = 0
    /\ _end_release_time = None
    /\ _release_mass = 0
    /\ custom_positions = None
    /\ start_position = None
    /\ _end_position = None
    /\ features = None
    /\ _tris = None
    /\ _weights = None
    /\ _prepared = FALSE
    /\ _mass_per_le = Zero
    /\ _release_ts = None
    /\ _pos_ts = None
    /\ data = <<>>
    /\ num_released = 0
    /\ current_time = 0
    /\ time_step = None
    /\ aborted = FALSE
    /\ completed = FALSE
    /\ last = Op("none", NoArgs, "")
    /\ nesdis = [file |-> <<>>, features |-> <<>>, warnings |-> 0, err |-> ""]
    /\ plume_gen = None
    /\ _init_data = None
    /\ self_num_released = None

\* ------------------------------------------------------- property setters
\* Each setter is a function from the fields it reads to the fields it
\* leaves behind and the exception it raised ("" for none).

\* release_mass.setter
ReleaseMassSet(val) ==
    IF IsNone(val) \/ Val(val) < 0 THEN 0 ELSE Val(val)

\* num_per_timestep.setter: the assignment comes first; with val None the
\* test `val is not None or val < 0` goes on to compare None with 0, which
\* raises TypeError and leaves _num_elements as it was.
NumPerTimestepSet(ne, val) ==
    IF ~IsNone(val)
    THEN [ne |-> None, npt |-> val, err |-> ""]
    ELSE [ne |-> ne, npt |-> val, err |-> "TypeError"]

\* num_elements.setter
NumElementsSet(npt, ne, val) ==
    IF IsNone(val)
    THEN [ne |-> val,
          npt |-> IF IsNone(npt) THEN Some(1) ELSE npt,
          err |-> ""]
    ELSE IF Val(val) < 0
    THEN [ne |-> ne, npt |-> npt, err |-> "ValueError"]
    ELSE [ne |-> val, npt |-> None, err |-> ""]

\* end_release_time.setter: None > datetime raises TypeError
EndReleaseTimeSet(rt, ert, val) ==
    IF ~IsNone(val) /\ IsNone(rt)
    THEN [ert |-> ert, err |-> "TypeError"]
    ELSE IF ~IsNone(val) /\ Val(rt) > Val(val)
    THEN [ert |-> ert, err |-> "ValueError"]
    ELSE [ert |-> val, err |-> ""]

\* end_release_time property
end_release_time ==
    IF IsNone(_end_release_time) THEN release_time ELSE Val(_end_release_time)

\* release_duration property, in seconds (end_release_time never reads None)
release_duration == end_release_time - release_time


\* ------------------------------------------------------------- construction
\* Release.__init__ without its test that both counts were given
ReleaseInit_BothAccepted(rt, ne, npt, ert, cp, mass, now) ==
    LET ne0 == IF IsNone(ne) /\ IsNone(npt) THEN Some(DefaultNumElements) ELSE ne
        s   == NumElementsSet(npt, None, ne0)
        e   == EndReleaseTimeSet(rt, None, ert)
        bad == [ne |-> None, npt |-> None, rt |-> 0, ert |-> None,
                mass |-> 0, cp |-> None]
    IN  IF s.err # "" THEN bad @@ [err |-> s.err]
        ELSE IF e.err # "" THEN bad @@ [err |-> e.err]
        ELSE [ne |-> s.ne, npt |-> s.npt,
              rt |-> IF IsNone(rt) THEN now ELSE Val(rt),
              ert |-> e.ert, mass |-> ReleaseMassSet(mass), cp |-> cp,
              err |-> ""]

\* Release.__init__ up to its call of rewind(): the fields it leaves and the
\* exception it raised.  `now` stands for datetime.now().
ReleaseInit(rt, ne, npt, ert, cp, mass, now) ==
    LET ne0 == IF IsNone(ne) /\ IsNone(npt) THEN Some(DefaultNumElements) ELSE ne
        s   == NumElementsSet(npt, None, ne0)
        e   == EndReleaseTimeSet(rt, None, ert)
        bad == [ne |-> None, npt |-> None, rt |-> 0, ert |-> None,
                mass |-> 0, cp |-> None]
    IN  IF ~IsNone(ne0) /\ ~IsNone(npt) THEN bad @@ [err |-> "TypeError"]
        ELSE IF s.err # "" THEN bad @@ [err |-> s.err]
        ELSE IF e.err # "" THEN bad @@ [err |-> e.err]
        ELSE [ne |-> s.ne, npt |-> s.npt,
              rt |-> IF IsNone(rt) THEN now ELSE Val(rt),
              ert |-> e.ert, mass |-> ReleaseMassSet(mass), cp |-> cp,
              err |-> ""]

\* The values datetime.now() may take where the constructor reads it
Nows(rt) == IF IsNone(rt) THEN StartTimes ELSE {0}

\* What the record of the constructor's call keeps: the two counts and the
\* two times as the caller gave them.
CtorArgs(rt, ne, npt, ert) ==
    [release_time |-> rt, num_elements |-> ne, num_per_timestep |-> npt,
     end_release_time |-> ert]

\* The fields every constructor leaves, from the result r of ReleaseInit;
\* rewind() closes Release.__init__.  A constructor that raised yields no
\* instance: life is "failed" and no field is read again.
Constructed(c, r, args) ==
    /\ life' = IF r.err = "" THEN "live" ELSE "failed"
    /\ cls' = c
    /\ _num_elements' = IF r.err = "" THEN r.ne ELSE None
    /\ _num_per_timestep' = IF r.err = "" THEN r.npt ELSE None
    /\ release_time' = IF r.err = "" THEN r.rt ELSE 0
    /\ _end_release_time' = IF r.err = "" THEN r.ert ELSE None
    /\ _release_mass' = IF r.err = "" THEN r.mass ELSE 0
    /\ custom_positions' = IF r.err = "" THEN r.cp ELSE None
    /\ _prepared' = FALSE
    /\ _mass_per_le' = Zero
    /\ _release_ts' = None
    /\ _pos_ts' = None
    /\ _tris' = None
    /\ _weights' = None
    /\ last' = Op("__init__", args, r.err)
    /\ UNCHANGED <<driver, nesdis>>

\* Release(release_time, num_elements, num_per_timestep, end_release_time,
\*         custom_positions, release_mass)
ConstructRelease ==
    /\ life = "none"
    /\ \E rt \in OptStartTimes, ne \in NumElementsArgs,
          npt \in NumPerTimestepArgs, ert \in OptEndTimes,
          cp \in CustomPositionsArgs, mass \in ReleaseMassArgs :
          \E now \in Nows(rt) :
              /\ Constructed("Release",
                             ReleaseInit(rt, ne, npt, ert, cp, mass, now),
                             CtorArgs(rt, ne, npt, ert))
              /\ UNCHANGED <<start_position, _end_position, features,
                             older>>

\* PointLineRelease.__init__: num_per_timestep is accepted and not handed
\* on to Release.__init__, which therefore sees it as None; custom_positions
\* is not among the parameters either.
PointLineReleaseInit(rt, ne, npt, ert, mass, now) ==
    ReleaseInit(rt, ne, None, ert, None, mass, now)

\* PointLineRelease(release_time, start_position, num_elements,
\*                  num_per_timestep, end_release_time, end_position,
\*                  release_mass)
ConstructPointLineRelease ==
    /\ life = "none"
    /\ \E rt \in OptStartTimes, ne \in NumElementsArgs,
          npt \in NumPerTimestepArgs, ert \in OptEndTimes,
          mass \in ReleaseMassArgs, sp \in {"A"}, ep \in OptPositions :
          \E now \in Nows(rt) :
          LET r == PointLineReleaseInit(rt, ne, npt, ert, mass, now)
          IN  /\ Constructed("PointLineRelease", r,
                             CtorArgs(rt, ne, npt, ert))
              /\ start_position' = IF r.err = "" THEN Some(sp) ELSE None
              /\ _end_position' = IF r.err = "" THEN ep ELSE None
              /\ UNCHANGED <<features, older>>


\* ---------------------------------------------------- SpatialRelease geometry
\* A polygon is the list of the areas of its triangles and whether
\* check_valid_polygon accepts it; a feature is a polygon with its optional
\* 'weight' and 'thickness' properties.
Polygon(tris, valid) == [tris |-> tris, valid |-> valid]
Feature(poly, w, t) == [geometry |-> poly, weight |-> w, thickness |-> t]

Square == Polygon(<<1, 1>>, TRUE)
Triangle == Polygon(<<2>>, TRUE)
Projected == Polygon(<<1>>, FALSE)

\* The geometry offered to the constructor.  polygons: two triangles of
\* equal area.  weights: one weight for the two polygons, weights 0 and 1,
\* and weights that add up to 3/4.  thicknesses: 2 and 1, and a list that
\* stops after the first polygon.  features: a square and a triangle of
\* equal area that carry both properties, the triangle with thickness 0.
PolygonsArgs == {None, Some(<<Triangle, Triangle>>)}
WeightsArgs ==
    {None, Some(<< <<1, 1>> >>), Some(<< <<0, 1>>, <<1, 1>> >>),
     Some(<< <<1, 2>>, <<1, 4>> >>)}
ThicknessesArgs == {None, Some(<<2, 1>>), Some(<<2>>)}
FeaturesArgs ==
    {None, Some(<<Feature(Square, Some(<<1, 4>>), Some(2)),
                  Feature(Triangle, Some(<<3, 4>>), Some(0))>>)}
FilenameArgs == {None, Some("shapes.zip")}

\* geo_routines.load_shapefile: the features of the one file offered, whose
\* polygon is in projected coordinates
load_shapefile(filename) == <<Feature(Projected, None, None)>>

\* SpatialRelease.gen_fc_from_kwargs: a property list is applied only when it
\* is a non-empty list, and zip() stops at the shorter of the two lists.
gen_fc_from_kwargs(polygons, weights, thicknesses) ==
    LET Prop(vals, i) ==
            IF ~IsNone(vals) /\ Len(Val(vals)) > 0 /\ i <= Len(Val(vals))
            THEN Some(Val(vals)[i]) ELSE None
    IN  [i \in 1 .. Len(polygons) |->
            Feature(polygons[i], Prop(weights, i), Prop(thicknesses, i))]

\* SpatialRelease.__init__ before its call of Release.__init__
SpatialInit(filename, feats, polygons, weights, thicknesses) ==
    IF ~IsNone(filename) /\ ~IsNone(feats)
    THEN [features |-> None, err |-> "ValueError"]
    ELSE IF ~IsNone(filename)
    THEN [features |-> Some(load_shapefile(Val(filename))), err |-> ""]
    ELSE IF ~IsNone(feats)
    THEN [features |-> feats, err |-> ""]
    ELSE IF IsNone(polygons)
    THEN [features |-> None, err |-> "ValueError"]
    ELSE IF ~IsNone(weights) /\ ~IsNone(thicknesses)
    THEN [features |-> None, err |-> "ValueError"]
    ELSE IF ~IsNone(weights) /\ Len(Val(weights)) # Len(Val(polygons))
    THEN [features |-> None, err |-> "ValueError"]
    ELSE [features |->
             Some(gen_fc_from_kwargs(Val(polygons), weights, thicknesses)),
          err |-> ""]

\* What the record of SpatialRelease's call keeps of the geometry: which
\* of the arguments were given, and the lengths of polygons and weights
\* (-1 for None)
Given(filename, feats, polygons, weights, thicknesses) ==
    [filename |-> ~IsNone(filename), features |-> ~IsNone(feats),
     polygons |-> IF IsNone(polygons) THEN -1 ELSE Len(Val(polygons)),
     weights |-> IF IsNone(weights) THEN -1 ELSE Len(Val(weights)),
     thicknesses |-> ~IsNone(thicknesses)]

\* SpatialRelease(filename, features, polygons, weights, thicknesses,
\*                **kwargs), the keyword arguments going to Release.__init__
ConstructSpatialRelease ==
    /\ life = "none"
    /\ \E filename \in FilenameArgs, feats \in FeaturesArgs,
          polygons \in PolygonsArgs, weights \in WeightsArgs,
          thicknesses \in ThicknessesArgs :
          LET g == SpatialInit(filename, feats, polygons, weights, thicknesses)
          IN  \E rt \in OptStartTimes, ne \in NumElementsArgs,
                 npt \in NumPerTimestepArgs, ert \in OptEndTimes,
                 mass \in ReleaseMassArgs :
                 \E now \in Nows(rt) :
                 LET r0 == ReleaseInit(rt, ne, npt, ert, None, mass, now)
                     r  == IF g.err # "" THEN [r0 EXCEPT !.err = g.err] ELSE r0
                 IN  /\ Constructed("SpatialRelease", r,
                                    CtorArgs(rt, ne, npt, ert) @@
                                    Given(filename, feats, polygons,
                                          weights, thicknesses))
                     /\ features' = IF r.err = "" THEN g.features ELSE None
                     /\ UNCHANGED <<start_position, _end_position, older>>


\* ---------------------------------------------------------- schedule queries
\* Release.get_num_release_time_steps: int(ceil(release_duration / ts)), and
\* 1 where that is 0
get_num_release_time_steps(ts) ==
    LET rts == CeilDiv(release_duration, ts)
    IN  IF rts = 0 THEN 1 ELSE rts

\* Release.LE_timestep_ratio as a rational; with both counts None the
\* product 1.0 * None raises TypeError
LE_timestep_ratio(ts) ==
    IF IsNone(_num_elements) /\ ~IsNone(_num_per_timestep)
    THEN [val |-> Rat(Val(_num_per_timestep), 1), err |-> ""]
    ELSE IF IsNone(_num_elements)
    THEN [val |-> Zero, err |-> "TypeError"]
    ELSE LET n == get_num_release_time_steps(ts)
         IN  [val |-> Rat(Val(_num_elements), n), err |-> ""]

\* np.linspace(0, stop, num_ts + 1).astype(int): sample k of num_ts + 1 is
\* k * stop / num_ts cut to an integer
linspace_int(stop, num_ts) ==
    [k \in 1 .. num_ts + 1 |-> TruncDiv((k - 1) * stop, num_ts)]

\* np.linspace with endpoint=False: the last sample stops short of p1
linspace_pos_NoEndpoint(p0, p1, num) ==
    [i \in 1 .. num |->
        RatAdd(p0, RatMul(RatAdd(p1, Rat(-p0[1], p0[2])), Rat(i - 1, num)))]

\* np.linspace(p0, p1, num) on rationals: num samples from p0 to p1, both
\* included; a single sample is p0
linspace_pos(p0, p1, num) ==
    [i \in 1 .. num |->
        IF num = 1 THEN p0
        ELSE RatAdd(p0, RatMul(RatAdd(p1, Rat(-p0[1], p0[2])),
                               Rat(i - 1, num - 1)))]

\* The positions a line source is given: A is (0, 0, 0) and B is (1, 1, 0),
\* so one coordinate stands for the three the code treats alike
Coord(p) == IF p = "A" THEN <<0, 1>> ELSE <<1, 1>>

\* PointLineRelease.end_position: start_position where none was given
end_position ==
    IF IsNone(_end_position) THEN start_position ELSE _end_position

\* The sample times without the last one being moved to end_release_time
release_times_NoEndFix(num_ts, ts) ==
    IF num_ts = 1
    THEN IF release_duration = 0
         THEN <<release_time, end_release_time + 1>>
         ELSE <<release_time, end_release_time>>
    ELSE [k \in 1 .. num_ts + 1 |-> release_time + ts * (k - 1)]

\* The sample times Release.generate_release_timeseries builds
release_times(num_ts, ts) ==
    IF num_ts = 1
    THEN IF release_duration = 0
         THEN <<release_time, end_release_time + 1>>
         ELSE <<release_time, end_release_time>>
    ELSE [k \in 1 .. num_ts + 1 |->
            IF k = num_ts + 1 THEN end_release_time
            ELSE release_time + ts * (k - 1)]

Ascending(t) == \A i \in 1 .. Len(t) - 1 : t[i] < t[i + 1]

\* generate_release_timeseries without the constant counts of an
\* instantaneous release
generate_release_timeseries_AlwaysRamp(num_ts, max_rel, ts, strict) ==
    IF num_ts < 1
    THEN [ts |-> None, err |-> "IndexError"]
    ELSE [ts |-> Some([time |-> release_times(num_ts, ts),
                       data |-> linspace_int(max_rel, num_ts)]),
          err |-> ""]

\* Release.generate_release_timeseries: the count timeseries, or the
\* exception raised.  With num_ts < 0 the list of times is empty and
\* t.data[-1] raises IndexError.  `strict` says whether Time() refuses a
\* sequence of times that is not ascending.
generate_release_timeseries(num_ts, max_release, ts, strict) ==
    IF num_ts < 1
    THEN [ts |-> None, err |-> "IndexError"]
    ELSE LET t == release_times(num_ts, ts)
         IN  IF strict /\ ~Ascending(t)
             THEN [ts |-> None, err |-> "ValueError"]
             ELSE [ts |-> Some([time |-> t,
                                data |-> IF release_duration = 0
                                         THEN [k \in 1 .. Len(t) |-> max_release]
                                         ELSE linspace_int(max_release, num_ts)]),
                   err |-> ""]

\* PointLineRelease.generate_release_timeseries adds _pos_ts over the same
\* times: each coordinate runs linearly from start_position to end_position
generate_pos_timeseries(rts, num_ts) ==
    Some([time |-> Val(rts).time,
          data |-> linspace_pos(Coord(Val(start_position)),
                                Coord(Val(end_position)), num_ts + 1)])

\* TimeseriesData.at(None, x, extrapolate=True) on samples d at times t:
\* linear between samples, flat outside them
at(t, d, x) ==
    LET n == Len(t)
    IN  IF x >= t[n] THEN d[n]
        ELSE IF x <= t[1] THEN d[1]
        ELSE LET i == CHOOSE j \in 1 .. n - 1 : t[j] <= x /\ x < t[j + 1]
                 w == t[i + 1] - t[i]
             IN  RatAdd(d[i],
                        RatMul(RatAdd(d[i + 1], Rat(-d[i][1], d[i][2])),
                               Rat(x - t[i], w)))

\* int(math.ceil(r)) of a rational
Ceil(r) == CeilDiv(r[1], r[2])

\* num_elements_after_time reading the timeseries at current_time
num_elements_after_time_NoStep(current, step) ==
    IF ~_prepared THEN 0
    ELSE IF current < release_time THEN 0
    ELSE LET series == Val(_release_ts)
         IN  Ceil(at(series.time,
                     [k \in 1 .. Len(series.data) |-> <<series.data[k], 1>>],
                     current))

\* num_elements_after_time without the test against release_time
num_elements_after_time_NoStartTest(current, step) ==
    IF ~_prepared THEN 0
    ELSE LET series == Val(_release_ts)
         IN  Ceil(at(series.time,
                     [k \in 1 .. Len(series.data) |-> <<series.data[k], 1>>],
                     current + step))

\* num_elements_after_time returning the elements of the step alone, the
\* count at current_time + time_step less the count at current_time
num_elements_after_time_OfStep(current, step) ==
    IF ~_prepared THEN 0
    ELSE IF current < release_time THEN 0
    ELSE LET series == Val(_release_ts)
             d == [k \in 1 .. Len(series.data) |-> <<series.data[k], 1>>]
         IN  Ceil(at(series.time, d, current + step))
             - Ceil(at(series.time, d, current))

\* Release.num_elements_after_time
num_elements_after_time(current, step) ==
    IF ~_prepared THEN 0
    ELSE IF current < release_time THEN 0
    ELSE LET series == Val(_release_ts)
         IN  Ceil(at(series.time,
                     [k \in 1 .. Len(series.data) |-> <<series.data[k], 1>>],
                     current + step))


\* ------------------------------------------------------ rewind and prepare
\* The derived fields as one record
Derived ==
    [prepared |-> _prepared, mass |-> _mass_per_le, rts |-> _release_ts,
     pts |-> _pos_ts, tris |-> _tris, weights |-> _weights]

\* rewind() leaving the count timeseries in place
rewind_KeepsSeries(d) ==
    IF cls = "SpatialRelease"
    THEN [d EXCEPT !.prepared = FALSE, !.mass = Zero,
                   !.tris = None, !.weights = None]
    ELSE [d EXCEPT !.prepared = FALSE, !.mass = Zero, !.pts = None]

\* rewind() of the instance's class, on the derived fields d:
\* Release.rewind and PointLineRelease.rewind clear _pos_ts,
\* SpatialRelease.rewind clears _tris and _weights instead.
rewind(d) ==
    IF cls = "SpatialRelease"
    THEN [d EXCEPT !.prepared = FALSE, !.mass = Zero, !.rts = None,
                   !.tris = None, !.weights = None]
    ELSE [d EXCEPT !.prepared = FALSE, !.mass = Zero, !.rts = None,
                   !.pts = None]

\* max_release without the product by the number of timesteps
max_release_PerStep(ts) ==
    IF ~IsNone(_num_per_timestep)
    THEN Val(_num_per_timestep)
    ELSE Val(_num_elements)

\* max_release in Release.prepare_for_model_run
max_release(ts) ==
    IF ~IsNone(_num_per_timestep)
    THEN Val(_num_per_timestep) * get_num_release_time_steps(ts)
    ELSE Val(_num_elements)

\* prepare_for_model_run refusing an instance that is already prepared
ReleasePrepare_NoReentry(ts, strict) ==
    LET ratio  == LE_timestep_ratio(ts)
        num_ts == get_num_release_time_steps(ts)
        g      == generate_release_timeseries(num_ts, max_release(ts), ts, strict)
    IN  IF _prepared THEN [d |-> Derived, err |-> "RuntimeError"]
        ELSE IF ratio.err # "" THEN [d |-> Derived, err |-> ratio.err]
        ELSE IF RatLess(ratio.val, <<1, 1>>) THEN [d |-> Derived, err |-> "ValueError"]
        ELSE IF g.err # "" THEN [d |-> Derived, err |-> g.err]
        ELSE [d |-> [Derived EXCEPT
                        !.rts = g.ts,
                        !.pts = IF cls = "PointLineRelease"
                                THEN generate_pos_timeseries(g.ts, num_ts)
                                ELSE @,
                        !.mass = Rat(_release_mass, max_release(ts)),
                        !.prepared = (cls = "Release")],
              err |-> ""]

\* prepare_for_model_run without the rewind of a prepared instance
ReleasePrepare_NoRewind(ts, strict) ==
    LET ratio  == LE_timestep_ratio(ts)
        num_ts == get_num_release_time_steps(ts)
        g      == generate_release_timeseries(num_ts, max_release(ts), ts, strict)
    IN  IF ratio.err # "" THEN [d |-> Derived, err |-> ratio.err]
        ELSE IF RatLess(ratio.val, <<1, 1>>)
        THEN [d |-> Derived, err |-> "ValueError"]
        ELSE IF g.err # "" THEN [d |-> Derived, err |-> g.err]
        ELSE [d |-> [Derived EXCEPT
                        !.rts = g.ts,
                        !.pts = IF cls = "PointLineRelease"
                                THEN generate_pos_timeseries(g.ts, num_ts)
                                ELSE @,
                        !.mass = Rat(_release_mass, max_release(ts)),
                        !.prepared = IF cls = "Release" THEN TRUE ELSE @],
              err |-> ""]

\* Release.prepare_for_model_run: the derived fields it leaves and the
\* exception it raised
ReleasePrepare(ts, strict) ==
    LET d0     == IF _prepared THEN rewind(Derived) ELSE Derived
        ratio  == LE_timestep_ratio(ts)
        num_ts == get_num_release_time_steps(ts)
        g      == generate_release_timeseries(num_ts, max_release(ts), ts, strict)
    IN  IF ratio.err # "" THEN [d |-> d0, err |-> ratio.err]
        ELSE IF RatLess(ratio.val, <<1, 1>>) THEN [d |-> d0, err |-> "ValueError"]
        ELSE IF g.err # "" THEN [d |-> d0, err |-> g.err]
        ELSE [d |-> [d0 EXCEPT
                        !.rts = g.ts,
                        !.pts = IF cls = "PointLineRelease"
                                THEN generate_pos_timeseries(g.ts, num_ts)
                                ELSE @,
                        !.mass = Rat(_release_mass, max_release(ts)),
                        !.prepared = (cls = "Release")],
              err |-> ""]

\* PointLineRelease.prepare_for_model_run
PointLineReleasePrepare(ts, strict) ==
    LET r == ReleasePrepare(ts, strict)
    IN  IF r.err # "" THEN r
        ELSE [d |-> [r.d EXCEPT !.prepared = TRUE], err |-> ""]

RECURSIVE SumSeq(_)
SumSeq(q) == IF q = <<>> THEN 0 ELSE Head(q) + SumSeq(Tail(q))

RECURSIVE RatSum(_)
RatSum(q) == IF q = <<>> THEN Zero ELSE RatAdd(Head(q), RatSum(Tail(q)))

RECURSIVE Concat(_)
Concat(qq) == IF qq = <<>> THEN <<>> ELSE Head(qq) \o Concat(Tail(qq))

\* SpatialRelease.polygons, .thicknesses and .weights: the property lists
\* read None when no feature carries the property
polygons == [i \in 1 .. Len(Val(features)) |-> Val(features)[i].geometry]

thicknesses ==
    LET rv == [i \in 1 .. Len(Val(features)) |-> Val(features)[i].thickness]
    IN  IF \A i \in 1 .. Len(rv) : IsNone(rv[i]) THEN None ELSE Some(rv)

weights ==
    LET rv == [i \in 1 .. Len(Val(features)) |-> Val(features)[i].weight]
    IN  IF \A i \in 1 .. Len(rv) : IsNone(rv[i]) THEN None ELSE Some(rv)

\* geo_routines.geo_area_of_polygon
geo_area_of_polygon(poly) == SumSeq(poly.tris)

\* geo_routines.poly_area_weight: each triangle's share of the total area
poly_area_weight(tris) == [i \in 1 .. Len(tris) |-> Rat(tris[i], SumSeq(tris))]

\* compute_distribution weighting by area alone
compute_distribution_ByArea ==
    LET n     == Len(polygons)
        areas == [i \in 1 .. n |-> geo_area_of_polygon(polygons[i])]
    IN  [weights |-> Some([i \in 1 .. n |-> Some(Rat(areas[i], SumSeq(areas)))]),
         err |-> ""]

\* SpatialRelease.compute_distribution: polygon weights by volume; a
\* missing thickness makes a * None raise TypeError
compute_distribution ==
    LET th      == Val(thicknesses)
        n       == Len(th)
        volumes == [i \in 1 .. n |->
                      IF IsNone(th[i]) THEN 0
                      ELSE geo_area_of_polygon(polygons[i]) * Val(th[i])]
        total   == SumSeq(volumes)
    IN  IF \E i \in 1 .. n : IsNone(th[i])
        THEN [weights |-> None, err |-> "TypeError"]
        ELSE IF total = 0
        THEN [weights |-> None, err |-> "ZeroDivisionError"]
        ELSE [weights |-> Some([i \in 1 .. n |-> Some(Rat(volumes[i], total))]),
              err |-> ""]

\* get_polys_as_tris without its assertion on the sum of the weights
get_polys_as_tris_NoAssert(polys, w) ==
    LET n     == Len(polys)
        tris  == Concat([i \in 1 .. n |-> polys[i].tris])
        custom == Concat([i \in 1 .. n |->
                     [k \in 1 .. Len(polys[i].tris) |->
                        RatMul(Val(Val(w)[i]), poly_area_weight(polys[i].tris)[k])]])
        ws    == IF IsNone(w) THEN poly_area_weight(tris) ELSE custom
    IN  IF ~IsNone(w) /\ Len(Val(w)) # n
        THEN [tris |-> None, weights |-> None, err |-> "ValueError"]
        ELSE IF ~IsNone(w) /\ \E i \in 1 .. n : IsNone(Val(w)[i])
        THEN [tris |-> None, weights |-> None, err |-> "TypeError"]
        ELSE [tris |-> Some(tris), weights |-> Some(ws), err |-> ""]

\* SpatialRelease.get_polys_as_tris
get_polys_as_tris(polys, w) ==
    LET n     == Len(polys)
        tris  == Concat([i \in 1 .. n |-> polys[i].tris])
        custom == Concat([i \in 1 .. n |->
                     [k \in 1 .. Len(polys[i].tris) |->
                        RatMul(Val(Val(w)[i]), poly_area_weight(polys[i].tris)[k])]])
        ws    == IF IsNone(w) THEN poly_area_weight(tris) ELSE custom
    IN  IF ~IsNone(w) /\ Len(Val(w)) # n
        THEN [tris |-> None, weights |-> None, err |-> "ValueError"]
        ELSE IF ~IsNone(w) /\ \E i \in 1 .. n : IsNone(Val(w)[i])
        THEN [tris |-> None, weights |-> None, err |-> "TypeError"]
        ELSE IF RatSum(ws) # <<1, 1>>
        THEN [tris |-> None, weights |-> None, err |-> "AssertionError"]
        ELSE [tris |-> Some(tris), weights |-> Some(ws), err |-> ""]

\* SpatialRelease.prepare_for_model_run
SpatialReleasePrepare(ts, strict) ==
    LET r  == ReleasePrepare(ts, strict)
        cd == IF ~IsNone(thicknesses) THEN compute_distribution
              ELSE [weights |-> weights, err |-> ""]
        g  == get_polys_as_tris(polygons, cd.weights)
    IN  IF r.err # "" THEN r
        ELSE IF \E i \in 1 .. Len(polygons) : ~polygons[i].valid
        THEN [d |-> r.d, err |-> "ValueError"]
        ELSE IF cd.err # "" THEN [d |-> r.d, err |-> cd.err]
        ELSE IF g.err # "" THEN [d |-> r.d, err |-> g.err]
        ELSE [d |-> [r.d EXCEPT !.tris = g.tris, !.weights = g.weights,
                                !.prepared = TRUE],
              err |-> ""]

\* prepare_for_model_run as the instance's class defines it
prepare_for_model_run(ts, strict) ==
    CASE cls = "PointLineRelease" -> PointLineReleasePrepare(ts, strict)
      [] cls = "SpatialRelease" -> SpatialReleasePrepare(ts, strict)
      [] OTHER -> ReleasePrepare(ts, strict)

SetDerived(d) ==
    /\ _prepared' = d.prepared
    /\ _mass_per_le' = d.mass
    /\ _release_ts' = d.rts
    /\ _pos_ts' = d.pts
    /\ _tris' = d.tris
    /\ _weights' = d.weights


\* ----------------------------------------------------------- initialize_LEs
\* A row of the element arrays.  positions holds what the release wrote: a
\* custom position, the coordinate of a point of the source line, or the
\* triangle drawn with the z coordinate; an appended row that nothing wrote
\* yet holds None there and zero mass.
Row(pos, mass, init_mass) == [positions |-> pos, mass |-> mass, init_mass |-> init_mass]
NewRow == Row(None, Zero, Zero)

\* A slice that selects every row, slice(None) for slice(-to_rel, None, 1)
Slice_EveryRow(n, to_rel) == 1 .. n

\* The rows slice(-to_rel, None, 1) selects among n: all of them when
\* to_rel is 0 or exceeds n
Slice(n, to_rel) ==
    IF to_rel = 0 \/ to_rel > n THEN 1 .. n ELSE (n - to_rel + 1) .. n

\* data[...][sl] = value for a scalar value
SetMass(rows, sl, m) ==
    [i \in 1 .. Len(rows) |->
        IF i \in sl THEN [rows[i] EXCEPT !.mass = m, !.init_mass = m]
        ELSE rows[i]]

\* data['positions'][sl] = pos for a sequence pos with as many entries as
\* the slice has rows, or one entry that numpy broadcasts
SetPositions(rows, sl, pos) ==
    LET first == Len(rows) - Cardinality(sl) + 1
    IN  [i \in 1 .. Len(rows) |->
            IF i \in sl
            THEN [rows[i] EXCEPT !.positions =
                     IF Len(pos) = 1 THEN pos[1] ELSE pos[i - first + 1]]
            ELSE rows[i]]

\* Whether numpy can assign `count` values along the first axis to a slice
\* of `k` rows
Broadcasts(count, k) == count = k \/ count = 1

\* Release.initialize_LEs without its test for missing positions: len(None)
\* raises TypeError, and so does indexing a list with an array
ReleaseInitializeLEs_NoCheck(rows, to_rel) ==
    IF IsNone(custom_positions) THEN [data |-> rows, err |-> "TypeError"]
    ELSE IF Val(custom_positions).kind = "ndarray"
    THEN [data |-> rows, err |-> "ValueError"]
    ELSE IF to_rel = 0
    THEN [data |-> rows, err |-> "ZeroDivisionError"]
    ELSE [data |-> rows, err |-> "TypeError"]

\* Release.initialize_LEs.  custom_positions is a list or an ndarray of
\* (lon, lat, z) rows.  `not custom_positions` raises ValueError on an
\* ndarray of more than one number and is true for an empty one; a list
\* passes the test when it is not empty, and indexing it with the array
\* np.random.randint returns raises TypeError.  No call gets as far as the
\* assignments.
ReleaseInitializeLEs(rows, to_rel) ==
    IF IsNone(custom_positions) \/ Len(Val(custom_positions).pts) = 0
    THEN [data |-> rows, err |-> "ValueError"]
    ELSE IF Val(custom_positions).kind = "ndarray"
    THEN [data |-> rows, err |-> "ValueError"]
    ELSE IF to_rel = 0
    THEN [data |-> rows, err |-> "ZeroDivisionError"]
    ELSE [data |-> rows, err |-> "TypeError"]

\* PointLineRelease.initialize_LEs
PointLineReleaseInitializeLEs(rows, to_rel, current, step) ==
    LET dt == IF step = 0 THEN 1 ELSE step
        sl == Slice(Len(rows), to_rel)
        p0 == at(Val(_pos_ts).time, Val(_pos_ts).data, current)
        p1 == at(Val(_pos_ts).time, Val(_pos_ts).data, current + dt)
    IN  IF IsNone(_pos_ts)
        THEN [data |-> rows, err |-> "AttributeError"]
        ELSE IF ~Broadcasts(to_rel, Cardinality(sl))
        THEN [data |-> rows, err |-> "ValueError"]
        ELSE [data |-> SetMass(SetPositions(rows, sl,
                                            linspace_pos(p0, p1, to_rel)),
                               sl, _mass_per_le),
              err |-> ""]

\* SpatialRelease.initialize_LEs; `choice` is what np.random.choice drew, one
\* triangle per new element, each of positive weight
SpatialReleaseInitializeLEs(rows, to_rel, choice) ==
    LET sl == Slice(Len(rows), to_rel)
    IN  IF IsNone(_tris)
        THEN [data |-> rows, err |-> "ValueError"]
        ELSE IF to_rel = 0 \/ ~Broadcasts(to_rel, Cardinality(sl))
        THEN [data |-> rows, err |-> "ValueError"]
        ELSE [data |-> SetMass(SetPositions(rows, sl,
                                 [k \in 1 .. to_rel |->
                                    [tri |-> choice[k], z |-> 0]]),
                               sl, _mass_per_le),
              err |-> ""]

\* np.random.choice drawing without regard to the weights
Choices_AnyTriangle(to_rel) ==
    IF IsNone(_tris) THEN {<<>>}
    ELSE [1 .. to_rel -> 1 .. Len(Val(_tris))]

\* The draws np.random.choice(self._tris, to_rel, p=self._weights) can make
Choices(to_rel) ==
    IF IsNone(_tris) THEN {<<>>}
    ELSE [1 .. to_rel ->
            {i \in 1 .. Len(Val(_tris)) : Val(_weights)[i][1] > 0}]

\* initialize_LEs as the instance's class defines it
initialize_LEs(rows, to_rel, current, step, choice) ==
    CASE cls = "PointLineRelease" ->
            PointLineReleaseInitializeLEs(rows, to_rel, current, step)
      [] cls = "SpatialRelease" ->
            SpatialReleaseInitializeLEs(rows, to_rel, choice)
      [] OTHER -> ReleaseInitializeLEs(rows, to_rel)


\* ------------------------------------------------------------------ actions
\* The schedule is edited between runs: the setters act on an instance whose
\* derived state is clear, as it is after construction and after rewind.
Editable == life = "live" /\ ~_prepared /\ IsNone(_release_ts)

\* release.num_elements = val
SetNumElements ==
    /\ Editable
    /\ \E val \in NumElementsArgs :
          LET r == NumElementsSet(_num_per_timestep, _num_elements, val)
          IN  /\ _num_elements' = r.ne
              /\ _num_per_timestep' = r.npt
              /\ last' = Op("setattr", NoArgs, r.err)
    /\ UNCHANGED <<life, cls, release_time, _end_release_time, _release_mass,
                   custom_positions, start_position, _end_position, features,
                   derived, driver, nesdis, older>>

\* release.num_per_timestep = val
SetNumPerTimestep ==
    /\ Editable
    /\ \E val \in NumPerTimestepArgs :
          LET r == NumPerTimestepSet(_num_elements, val)
          IN  /\ _num_elements' = r.ne
              /\ _num_per_timestep' = r.npt
              /\ last' = Op("setattr", NoArgs, r.err)
    /\ UNCHANGED <<life, cls, release_time, _end_release_time, _release_mass,
                   custom_positions, start_position, _end_position, features,
                   derived, driver, nesdis, older>>

\* release.release_time = val: a plain attribute, nothing is checked
SetReleaseTime ==
    /\ Editable
    /\ \E val \in StartTimes :
          /\ release_time' = val
          /\ last' = Op("setattr", NoArgs, "")
    /\ UNCHANGED <<life, cls, _num_elements, _num_per_timestep,
                   _end_release_time, _release_mass, custom_positions,
                   start_position, _end_position, features, derived, driver, nesdis, older>>

\* release.end_release_time = val
SetEndReleaseTime ==
    /\ Editable
    /\ \E val \in OptEndTimes :
          LET r == EndReleaseTimeSet(Some(release_time), _end_release_time, val)
          IN  /\ _end_release_time' = r.ert
              /\ last' = Op("setattr", NoArgs, r.err)
    /\ UNCHANGED <<life, cls, _num_elements, _num_per_timestep, release_time,
                   _release_mass, custom_positions, start_position,
                   _end_position, features, derived, driver, nesdis, older>>

\* release.release_mass = val
SetReleaseMass ==
    /\ Editable
    /\ \E val \in ReleaseMassArgs :
          /\ _release_mass' = ReleaseMassSet(val)
          /\ last' = Op("setattr", NoArgs, "")
    /\ UNCHANGED <<life, cls, _num_elements, _num_per_timestep, release_time,
                   _end_release_time, custom_positions, start_position,
                   _end_position, features, derived, driver, nesdis, older>>

\* release.rewind(), which the driver calls as it rewinds itself: the
\* element arrays are emptied and the running count is zeroed.  The record
\* of the call keeps whether the instance was prepared when it was made.
Rewind ==
    /\ life = "live"
    /\ SetDerived(rewind(Derived))
    /\ data' = <<>>
    /\ num_released' = 0
    /\ current_time' = 0
    /\ time_step' = None
    /\ aborted' = FALSE
    /\ completed' = FALSE
    /\ last' = Op("rewind", [was |-> _prepared], "")
    /\ UNCHANGED <<life, config, nesdis, older>>

\* Whether the sample times the constructor of Time would be given are out
\* of order (a release_time later than end_release_time)
TimesOutOfOrder(ts) ==
    LET n == get_num_release_time_steps(ts)
    IN  n >= 1 /\ ~Ascending(release_times(n, ts))

\* Whether Time() refuses times that are out of order, as far as the state
\* tells: an instance prepared with such times shows that it does not.
Strictness(ts) ==
    IF ~TimesOutOfOrder(ts) THEN {TRUE}
    ELSE IF _prepared /\ ~Ascending(Val(_release_ts).time) THEN {FALSE}
    ELSE BOOLEAN

\* release.prepare_for_model_run(ts) at the start of a run; the driver
\* starts its clock at t0 with empty element arrays.  The record of the call
\* keeps ts and whether the instance was prepared when the call was made.
PrepareForModelRun ==
    /\ life = "live"
    /\ \E ts \in TimeSteps, t0 \in StartTimes :
       \E strict \in Strictness(ts) :
          LET r == prepare_for_model_run(ts, strict)
          IN  /\ SetDerived(r.d)
              /\ data' = <<>>
              /\ num_released' = 0
              /\ current_time' = t0
              /\ time_step' = IF r.err = "" THEN Some(ts) ELSE None
              /\ aborted' = FALSE
              /\ completed' = IF r.err = "" THEN TRUE
                               ELSE IF _prepared THEN FALSE ELSE completed
              /\ last' = Op("prepare_for_model_run",
                            [ts |-> ts, again |-> _prepared], r.err)
    /\ UNCHANGED <<life, config, nesdis, older>>

\* One timestep of the driver (Spill.release_elements): it asks for the
\* number of elements that should exist after the step, appends the
\* difference to its arrays and has the release initialize the new rows.
\* An exception ends the run.
Step ==
    /\ life = "live"
    /\ ~IsNone(time_step)
    /\ ~aborted
    /\ current_time <= MaxClock
    /\ LET dt     == Val(time_step)
           to_rel == num_elements_after_time(current_time, dt) - num_released
           rows   == data \o [i \in 1 .. to_rel |-> NewRow]
       IN  IF to_rel <= 0
           THEN /\ current_time' = current_time + dt
                /\ last' = Op("step", NoArgs, "")
                /\ UNCHANGED <<data, num_released, aborted>>
           ELSE /\ Len(data) + to_rel <= MaxRows
                /\ \E choice \in Choices(to_rel) :
                      LET r == initialize_LEs(rows, to_rel, current_time, dt, choice)
                      IN  /\ data' = r.data
                          /\ num_released' = num_released + to_rel
                          /\ current_time' = current_time + dt
                          /\ aborted' = (r.err # "")
                          /\ last' = Op("step", NoArgs, r.err)
    /\ UNCHANGED <<life, config, derived, time_step, completed, nesdis,
                   older>>

Next ==
    \/ ConstructRelease
    \/ ConstructPointLineRelease
    \/ ConstructSpatialRelease
    \/ SetNumElements
    \/ SetNumPerTimestep
    \/ SetReleaseTime
    \/ SetEndReleaseTime
    \/ SetReleaseMass
    \/ Rewind
    \/ PrepareForModelRun
    \/ Step

Spec == Init /\ [][Next]_vars


\* =================================================================== claims
JustConstructed(c) == last.op = "__init__" /\ cls = c

\* The times given to a constructor are in order: an end_release_time is
\* given only with a release_time that is not later
TimesGivenInOrder ==
    IsNone(last.args.end_release_time)
    \/ (/\ ~IsNone(last.args.release_time)
        /\ Val(last.args.release_time) <= Val(last.args.end_release_time))

\* C1: constructing a base Release with both num_elements and
\* num_per_timestep raises and yields no instance; with neither it yields
\* num_elements = 1000 and num_per_timestep = None; with exactly one, that
\* field holds the given value and the other is None.  The instance exists
\* whenever the times are in order and no negative num_elements was given.
C1_ReleaseConstruction ==
    JustConstructed("Release") =>
        LET ne  == last.args.num_elements
            npt == last.args.num_per_timestep
        IN  /\ (~IsNone(ne) /\ ~IsNone(npt)) =>
                  (life = "failed" /\ last.err = "TypeError")
            /\ (IsNone(ne) /\ IsNone(npt) /\ life = "live") =>
                  (/\ _num_elements = Some(1000)
                   /\ _num_per_timestep = None)
            /\ (~IsNone(ne) /\ IsNone(npt) /\ life = "live") =>
                  (_num_elements = ne /\ _num_per_timestep = None)
            /\ (IsNone(ne) /\ ~IsNone(npt) /\ life = "live") =>
                  (_num_per_timestep = npt /\ _num_elements = None)
            /\ (life = "live") <=>
                  (/\ IsNone(ne) \/ IsNone(npt)
                   /\ IsNone(ne) \/ Val(ne) >= 0
                   /\ TimesGivenInOrder)

\* C1 witnesses: each of the four cases has happened
C1_Witness ==
    /\ JustConstructed("Release")
    /\ life = "live"
    /\ IsNone(last.args.num_elements)
    /\ last.args.num_per_timestep = Some(2)
    /\ _num_per_timestep = Some(2)

\* C2 as claimed: PointLineRelease obeys the contract of Release: given only
\* num_per_timestep = r it is rate-based with LE_timestep_ratio(ts) = r, and
\* given both counts it raises.
C2_PointLineConstruction ==
    JustConstructed("PointLineRelease") =>
        LET ne  == last.args.num_elements
            npt == last.args.num_per_timestep
        IN  /\ (~IsNone(ne) /\ ~IsNone(npt)) => life = "failed"
            /\ (IsNone(ne) /\ ~IsNone(npt) /\ life = "live") =>
                  (/\ _num_per_timestep = npt
                   /\ _num_elements = None
                   /\ \A ts \in TimeSteps :
                         LE_timestep_ratio(ts) = [val |-> <<Val(npt), 1>>, err |-> ""])

\* C3 as claimed: in every state of a live release exactly one of
\* num_elements and num_per_timestep is not None.
C3_ExactlyOneCount ==
    life = "live" => (IsNone(_num_elements) # IsNone(_num_per_timestep))

\* C4 as claimed: in every state of a live release end_release_time is not
\* earlier than release_time.
C4_EndNotBeforeStart ==
    life = "live" => end_release_time >= release_time


\* The instance is prepared; the driver's timestep is then the one it was
\* prepared with
Prepared == life = "live" /\ _prepared

\* The total a prepared release hands out: the rate times the number of
\* release timesteps, or num_elements
TotalRelease(ts) ==
    IF ~IsNone(_num_per_timestep)
    THEN Val(_num_per_timestep) * get_num_release_time_steps(ts)
    ELSE Val(_num_elements)

\* The (t, dt) the queries are made with
QueryTimes == 0 .. MaxClock
QuerySteps == 0 .. MaxTs

C6_Instantaneous ==
    (Prepared /\ release_duration = 0) =>
        \A t \in QueryTimes, dt \in QuerySteps :
            num_elements_after_time(t, dt) =
                IF t < release_time THEN 0 ELSE TotalRelease(Val(time_step))

\* C6 witness: a prepared instantaneous release that starts after time 0
C6_Witness ==
    /\ Prepared
    /\ IsNone(_end_release_time)
    /\ release_time = 1
    /\ _num_elements = Some(3)
    /\ num_elements_after_time(0, 2) = 0
    /\ num_elements_after_time(1, 0) = 3

\* C7: prepared with N = get_num_release_time_steps(ts) > 1, the count
\* timeseries has N + 1 samples at strictly increasing times from
\* release_time to end_release_time, with counts that never decrease, start
\* at 0 and end at max_release (num_elements for a fixed total).
C7_TimeVaryingSeries ==
    Prepared =>
        LET ts == Val(time_step)
            N  == get_num_release_time_steps(ts)
            s  == Val(_release_ts)
        IN  N > 1 =>
              /\ Len(s.time) = N + 1
              /\ Len(s.data) = N + 1
              /\ \A i \in 1 .. N : s.time[i] < s.time[i + 1]
              /\ s.time[1] = release_time
              /\ s.time[N + 1] = end_release_time
              /\ \A i \in 1 .. N : s.data[i] <= s.data[i + 1]
              /\ s.data[1] = 0
              /\ s.data[N + 1] = TotalRelease(ts)
              /\ ~IsNone(_num_elements) => s.data[N + 1] = Val(_num_elements)

\* C7 witness: a release prepared over two timesteps, the second one
\* shorter than the timestep
C7_Witness ==
    /\ Prepared
    /\ time_step = Some(2)
    /\ release_duration = 3
    /\ Len(Val(_release_ts).time) = 3

\* C8: a prepared fixed-total release whose duration is N timesteps and
\* whose num_elements is a multiple of N takes N release timesteps, has
\* the ratio num_elements / N, and reports k * num_elements / N elements
\* k timesteps after release_time, for k = 0 .. N.
C8_EvenRelease ==
    (Prepared /\ ~IsNone(_num_elements)) =>
        LET ts == Val(time_step)
            ne == Val(_num_elements)
        IN  \A N \in 1 .. MaxEnd :
                (release_duration = N * ts /\ ne % N = 0) =>
                    /\ get_num_release_time_steps(ts) = N
                    /\ LE_timestep_ratio(ts) = [val |-> <<ne \div N, 1>>, err |-> ""]
                    /\ \A k \in 0 .. N :
                          num_elements_after_time(release_time, k * ts)
                              = k * (ne \div N)

\* C8 witness: the scenario's shape, two timesteps and an even count
C8_Witness ==
    /\ Prepared
    /\ cls = "Release"
    /\ _num_elements = Some(2)
    /\ release_duration = 2 * Val(time_step)
    /\ num_elements_after_time(release_time, 0) = 0
    /\ num_elements_after_time(release_time, Val(time_step)) = 1
    /\ num_elements_after_time(release_time, 2 * Val(time_step)) = 2

C10_RatioGate ==
    (life = "live" /\ last.op = "prepare_for_model_run"
                   /\ cls # "SpatialRelease") =>
        LET ts == last.args.ts
            r  == LE_timestep_ratio(ts)
        IN  /\ r.err = ""
            /\ r.val = IF IsNone(_num_elements)
                       THEN <<Val(_num_per_timestep), 1>>
                       ELSE Rat(Val(_num_elements), get_num_release_time_steps(ts))
            /\ (last.err # "") <=> RatLess(r.val, <<1, 1>>)
            /\ (last.err # "") => ~_prepared
            /\ (last.err = "") => _prepared

\* C11 as claimed: get_num_release_time_steps(ts) is
\* max(1, ceil(release_duration / ts)) for every ts > 0, release_duration
\* being the seconds from release_time to end_release_time and 0 for an
\* instantaneous release.
C11_NumReleaseTimeSteps ==
    life = "live" =>
        /\ release_duration =
              IF IsNone(_end_release_time) THEN 0
              ELSE Val(_end_release_time) - release_time
        /\ \A ts \in TimeSteps :
              LET c == CeilDiv(release_duration, ts)
              IN  get_num_release_time_steps(ts) = IF c > 1 THEN c ELSE 1

\* The state the call of prepare_for_model_run recorded in `last` was made
\* in: on an instance that was prepared, with the timestep of that run
PreparedAgain ==
    /\ life = "live"
    /\ last.op = "prepare_for_model_run"
    /\ last.args.again

\* C12: prepare_for_model_run(ts) on an instance that is prepared with the
\* same ts does not raise and leaves the prepared flag, mass_per_element
\* and the count timeseries as the first call left them.
C12_PrepareIdempotent ==
    [][(/\ Prepared
        /\ last'.op = "prepare_for_model_run"
        /\ last'.args.ts = Val(time_step))
       => (/\ last'.err = ""
           /\ _prepared' = _prepared
           /\ _mass_per_le' = _mass_per_le
           /\ _release_ts' = _release_ts)]_vars

\* C12 witness: a SpatialRelease with a positive mass and a release over
\* several timesteps has been prepared a second time
C12_Witness ==
    /\ PreparedAgain
    /\ Prepared
    /\ cls = "SpatialRelease"
    /\ _release_mass > 0
    /\ Len(Val(_release_ts).time) > 2

\* C13: rewind(), from any state, leaves the prepared flag false,
\* mass_per_element 0 and no count or position timeseries, triangulation or
\* triangle weights, so that num_elements_after_time returns 0; a second
\* rewind changes nothing, and no rewind changes release_time,
\* end_release_time, num_elements, num_per_timestep or release_mass.
C13_Rewind ==
    [][(last'.op = "rewind") =>
          (/\ ~_prepared'
           /\ _mass_per_le' = Zero
           /\ IsNone(_release_ts') /\ IsNone(_pos_ts')
           /\ IsNone(_tris') /\ IsNone(_weights')
           /\ \A t \in QueryTimes, dt \in QuerySteps :
                 num_elements_after_time(t, dt)' = 0
           /\ (last.op = "rewind") => (derived' = derived)
           /\ config' = config)]_vars

\* C13 witness: a prepared SpatialRelease with a positive release mass was
\* rewound
C13_Witness ==
    /\ life = "live"
    /\ last.op = "rewind"
    /\ last.args.was
    /\ cls = "SpatialRelease"
    /\ ~_prepared /\ IsNone(_tris) /\ IsNone(_release_ts)
    /\ _release_mass > 0

\* A base Release whose custom_positions is a list that is not empty
HasPositionList ==
    /\ cls = "Release"
    /\ ~IsNone(custom_positions)
    /\ Val(custom_positions).kind = "list"
    /\ Len(Val(custom_positions).pts) > 0

\* A base Release with no position to release from
HasNoPositions ==
    /\ cls = "Release"
    /\ IsNone(custom_positions) \/ Len(Val(custom_positions).pts) = 0

\* C14 as claimed: initialize_LEs of a base Release with a list of P >= 1
\* custom positions succeeds for every count >= 1 and fills exactly the new
\* rows, each with a position taken from the list.
C14_CustomPositionsTiled ==
    (life = "live" /\ HasPositionList /\ last.op = "step" /\ num_released > 0) =>
        /\ last.err = ""
        /\ Len(data) = num_released
        /\ \A i \in 1 .. Len(data) :
              \E k \in 1 .. Len(Val(custom_positions).pts) :
                  data[i].positions = Val(custom_positions).pts[k]

\* C15: initialize_LEs of a base Release without custom positions (None, or
\* empty) raises ValueError and writes nothing: the rows the driver had are
\* as they were and the rows it appended for the call are still blank.
C15_NoPositions ==
    [][(/\ life = "live" /\ HasNoPositions
        /\ last'.op = "step"
        /\ num_released' > num_released)
       => (/\ last'.err = "ValueError"
           /\ Len(data') = Len(data) + (num_released' - num_released)
           /\ \A i \in 1 .. Len(data') :
                 data'[i] = IF i <= Len(data) THEN data[i] ELSE NewRow)]_vars

\* C15 witness: the first step of a run of a base Release without custom
\* positions asked for elements and ended the run with ValueError
C15_Witness ==
    /\ life = "live" /\ HasNoPositions
    /\ IsNone(custom_positions)
    /\ last.op = "step" /\ last.err = "ValueError"
    /\ aborted
    /\ num_released = 3
    /\ Len(data) = 3
    /\ \A i \in 1 .. 3 : data[i] = NewRow

\* p lies between a and b, whichever way round
Between(a, p, b) ==
    \/ ~RatLess(p, a) /\ ~RatLess(b, p)
    \/ ~RatLess(p, b) /\ ~RatLess(a, p)

\* The position of the source at time x, read off the position timeseries
SourceAt(x) == at(Val(_pos_ts).time, Val(_pos_ts).data, x)

\* The numbers of elements asked for in the direct calls of initialize_LEs
Counts == 1 .. MaxRows

\* C16: for a prepared PointLineRelease, initialize_LEs(count, data, t, dt)
\* succeeds for every count >= 1, t and dt >= 0, a dt of 0 acting as 1 s; the
\* new rows run from the source position at t to the source position at
\* t + dt in equal steps, every one of them on the segment from
\* start_position to end_position, and all of them are start_position for a
\* point source.  The rows the driver holds lie on the segment too.
C16_OnSegment ==
    (Prepared /\ cls = "PointLineRelease") =>
        LET a == Coord(Val(start_position))
            b == Coord(Val(end_position))
        IN  /\ \A i \in 1 .. Len(data) : Between(a, data[i].positions, b)
            /\ \A count \in Counts, t \in QueryTimes, dt \in QuerySteps :
                  LET r  == PointLineReleaseInitializeLEs(
                                [i \in 1 .. count |-> NewRow], count, t, dt)
                      p  == [i \in 1 .. count |-> r.data[i].positions]
                      p0 == SourceAt(t)
                      p1 == SourceAt(t + IF dt = 0 THEN 1 ELSE dt)
                  IN  /\ r.err = ""
                      /\ p[1] = p0
                      /\ count > 1 => p[count] = p1
                      /\ \A i \in 1 .. count :
                            /\ Between(a, p[i], b)
                            /\ Between(p0, p[i], p1)
                            /\ a = b => p[i] = a
                      /\ \A i \in 2 .. count - 1 :
                            RatAdd(p[i], p[i]) = RatAdd(p[i - 1], p[i + 1])

\* C16 witness: a line source has put an element halfway along the line
C16_Witness ==
    /\ Prepared /\ cls = "PointLineRelease"
    /\ _end_position = Some("B")
    /\ last.op = "step" /\ ~aborted
    /\ Len(data) >= 2
    /\ \E i \in 1 .. Len(data) : data[i].positions = <<1, 2>>

\* C17 as claimed: a SpatialRelease is constructed only from exactly one of
\* filename, features and polygons; with none or more than one of them, with
\* polygons and both weights and thicknesses, or with polygons and a weights
\* list of another length, the constructor raises ValueError.
C17_OneGeometrySource ==
    JustConstructed("SpatialRelease") =>
        LET g == last.args
            n == (IF g.filename THEN 1 ELSE 0) + (IF g.features THEN 1 ELSE 0)
                 + (IF g.polygons >= 0 THEN 1 ELSE 0)
            conflict ==
                \/ n # 1
                \/ /\ g.polygons >= 0
                   /\ \/ g.weights >= 0 /\ g.thicknesses
                      \/ g.weights >= 0 /\ g.weights # g.polygons
        IN  conflict => (life = "failed" /\ last.err = "ValueError")

\* The weight the prepared triangulation gives polygon i: the sum of the
\* weights of its triangles
PolygonWeight(i) ==
    LET before == SumSeq([j \in 1 .. i - 1 |-> Len(polygons[j].tris)])
    IN  RatSum(SubSeq(Val(_weights), before + 1,
                      before + Len(polygons[i].tris)))

\* The weight polygon i is to get: by area times thickness where any polygon
\* has a thickness, else the explicit weight where weights were supplied,
\* else by area
ResolvedWeight(i) ==
    LET f    == Val(features)
        n    == Len(f)
        area == [j \in 1 .. n |-> SumSeq(f[j].geometry.tris)]
    IN  IF \E j \in 1 .. n : ~IsNone(f[j].thickness)
        THEN Rat(area[i] * Val(f[i].thickness),
                 SumSeq([j \in 1 .. n |-> area[j] * Val(f[j].thickness)]))
        ELSE IF \E j \in 1 .. n : ~IsNone(f[j].weight)
        THEN Val(f[i].weight)
        ELSE Rat(area[i], SumSeq(area))

PolygonOf(k) ==
    CHOOSE i \in 1 .. Len(polygons) :
        LET before == SumSeq([j \in 1 .. i - 1 |-> Len(polygons[j].tris)])
        IN  before < k /\ k <= before + Len(polygons[i].tris)

PlaceIn(k) ==
    k - SumSeq([j \in 1 .. PolygonOf(k) - 1 |-> Len(polygons[j].tris)])

\* The explicit weights of the polygons do not add up to 1, and no polygon
\* has a thickness
WeightsOffOne ==
    /\ cls = "SpatialRelease" /\ ~IsNone(features)
    /\ IsNone(thicknesses)
    /\ ~IsNone(weights)
    /\ \A i \in 1 .. Len(Val(weights)) : ~IsNone(Val(weights)[i])
    /\ RatSum([i \in 1 .. Len(Val(weights)) |-> Val(Val(weights)[i])]) # <<1, 1>>

C20_InsidePolygons ==
    (Prepared /\ cls = "SpatialRelease" /\ ~aborted) =>
        /\ Len(data) = num_released
        /\ \A i \in 1 .. Len(data) :
              /\ data[i].positions.tri \in 1 .. Len(Val(_tris))
              /\ RatLess(Zero, Val(_weights)[data[i].positions.tri])
              /\ data[i].positions.z = 0

\* C20 witness: three elements were released into a triangulation that has
\* a triangle of weight 0
C20_Witness ==
    /\ Prepared /\ cls = "SpatialRelease" /\ ~aborted
    /\ last.op = "step"
    /\ Len(data) = 3
    /\ \E k \in 1 .. Len(Val(_tris)) : Val(_weights)[k] = Zero
    /\ \E i, j \in 1 .. 3 : data[i].positions.tri # data[j].positions.tri

\* --------------------------------------- SpatialRelease weights, thicknesses
\* `del feat.properties[prop]` for each feature in turn: the first feature
\* without the property raises KeyError, the features before it having lost
\* theirs.
DelProperty(fs, has, del) ==
    LET miss == {i \in 1 .. Len(fs) : ~has[i]}
        stop == IF miss = {} THEN Len(fs) + 1
                ELSE CHOOSE i \in miss : \A j \in miss : i <= j
    IN  [features |-> [i \in 1 .. Len(fs) |->
                          IF i < stop THEN del[i] ELSE fs[i]],
         err |-> IF miss = {} THEN "" ELSE "KeyError"]

\* SpatialRelease.weights.setter without its test of the thicknesses
WeightsSet_NoTest(fs, vals) ==
    IF IsNone(vals)
    THEN DelProperty(fs, [i \in 1 .. Len(fs) |-> ~IsNone(fs[i].weight)],
                     [i \in 1 .. Len(fs) |-> [fs[i] EXCEPT !.weight = None]])
    ELSE [features |-> [i \in 1 .. Len(fs) |->
                           IF i <= Len(Val(vals))
                           THEN [fs[i] EXCEPT !.weight = Some(Val(vals)[i])]
                           ELSE fs[i]],
          err |-> ""]

\* SpatialRelease.weights.setter
WeightsSet(fs, vals) ==
    IF ~IsNone(vals) /\ ~IsNone(thicknesses)
    THEN [features |-> fs, err |-> "ValueError"]
    ELSE WeightsSet_NoTest(fs, vals)

\* SpatialRelease.thicknesses.setter
ThicknessesSet(fs, vals) ==
    IF IsNone(vals)
    THEN DelProperty(fs, [i \in 1 .. Len(fs) |-> ~IsNone(fs[i].thickness)],
                     [i \in 1 .. Len(fs) |-> [fs[i] EXCEPT !.thickness = None]])
    ELSE IF ~IsNone(weights)
    THEN [features |-> fs, err |-> "ValueError"]
    ELSE [features |-> [i \in 1 .. Len(fs) |->
                           IF i <= Len(Val(vals))
                           THEN [fs[i] EXCEPT !.thickness = Some(Val(vals)[i])]
                           ELSE fs[i]],
          err |-> ""]

\* release.weights = vals
SetWeights ==
    /\ Editable /\ cls = "SpatialRelease"
    /\ \E vals \in WeightsArgs :
          LET r == WeightsSet(Val(features), vals)
          IN  /\ features' = Some(r.features)
              /\ last' = Op("setattr", [attr |-> "weights",
                                        none |-> IsNone(vals)], r.err)
    /\ UNCHANGED <<life, cls, _num_elements, _num_per_timestep, release_time,
                   _end_release_time, _release_mass, custom_positions,
                   start_position, _end_position, derived, driver, nesdis, older>>

\* release.thicknesses = vals
SetThicknesses ==
    /\ Editable /\ cls = "SpatialRelease"
    /\ \E vals \in ThicknessesArgs :
          LET r == ThicknessesSet(Val(features), vals)
          IN  /\ features' = Some(r.features)
              /\ last' = Op("setattr", [attr |-> "thicknesses",
                                        none |-> IsNone(vals)], r.err)
    /\ UNCHANGED <<life, cls, _num_elements, _num_per_timestep, release_time,
                   _end_release_time, _release_mass, custom_positions,
                   start_position, _end_position, derived, driver, nesdis, older>>

\* A SpatialRelease between runs: it is constructed, and its weights and
\* thicknesses are assigned.
NextGeometry ==
    \/ ConstructSpatialRelease
    \/ SetWeights
    \/ SetThicknesses

SpecGeometry == Init /\ [][NextGeometry]_vars

\* C21: no polygon of a SpatialRelease carries both an explicit weight and
\* a thickness, however the release was constructed and whatever was
\* assigned to its weights and thicknesses since.
C21_WeightXorThickness ==
    (life = "live" /\ cls = "SpatialRelease") =>
        \A i \in 1 .. Len(Val(features)) :
            IsNone(Val(features)[i].weight) \/ IsNone(Val(features)[i].thickness)

\* The assignments alone keep the two apart: a polygon that carries both
\* was given both in the feature collection of the constructor.
C21_OnlyFromFeatures ==
    (life = "live" /\ cls = "SpatialRelease" /\ ~C21_WeightXorThickness) =>
        \E i \in 1 .. Len(Val(features)) :
            /\ Val(features)[i].geometry \in {Square}
            /\ ~IsNone(Val(features)[i].thickness)

\* ----------------------------------------------------------- NESDIS ingestion
\* The number of features of a NESDIS shapefile
MaxFeatures == 3

\* A feature of a NESDIS shapefile, as far as load_nesdis reads it: the
\* time its DATE and TIME strings parse to, None when strptime raises
\* ValueError, and its OILTYPE.
NesdisFeature(time, oiltype) == [time |-> time, OILTYPE |-> oiltype]
NesdisFeatures ==
    {NesdisFeature(t, o) : t \in {None} \cup {Some(x) : x \in StartTimes},
                           o \in {"THIN", "thick"}}
Shapefiles == UNION {[1 .. n -> NesdisFeatures] : n \in 1 .. MaxFeatures}

\* str.lower() on the oil types of the files
Lower(o) == IF o = "THIN" THEN "thin" ELSE o

\* The loop of load_nesdis from feature i on.  `local` is the local variable
\* release_time, None while nothing is bound to it: only a DATE/TIME that
\* parses binds it, and the statement after the try block reads it for
\* every feature.  The thickness is in micrometres.
RECURSIVE load_nesdis_from(_, _, _, _, _)
load_nesdis_from(fc, i, local, out, warned) ==
    IF i > Len(fc)
    THEN [file |-> fc, features |-> out, warnings |-> warned, err |-> ""]
    ELSE LET parsed == fc[i].time
             bound  == IF IsNone(parsed) THEN local ELSE parsed
             w      == IF IsNone(parsed) THEN warned + 1 ELSE warned
         IN  IF IsNone(bound)
             THEN [file |-> fc, features |-> out, warnings |-> w,
                   err |-> "UnboundLocalError"]
             ELSE load_nesdis_from(fc, i + 1, bound,
                      Append(out,
                             [release_time |-> Val(bound),
                              thickness |-> IF Lower(fc[i].OILTYPE) = "thin"
                                            THEN 5 ELSE 200]),
                      w)

\* NESDISRelease.load_nesdis: the features ingested, the warnings issued
\* and the exception raised
load_nesdis(fc) == load_nesdis_from(fc, 1, None, <<>>, 0)

\* NESDISRelease.load_nesdis(filename), a static method
LoadNesdis ==
    /\ \E fc \in Shapefiles : nesdis' = load_nesdis(fc)
    /\ UNCHANGED <<life, config, derived, driver, last, older>>

NextNesdis == LoadNesdis

SpecNesdis == Init /\ [][NextNesdis]_vars

\* The features of the file whose DATE/TIME does not parse
Unparsable(fc) == {i \in 1 .. Len(fc) : IsNone(fc[i].time)}

\* C22: load_nesdis does not fail on a DATE/TIME that cannot be parsed: it
\* issues one warning for each such feature, the first one included, and
\* ingests every feature of the file.
C22_UnparsableOnlyWarns ==
    nesdis.file # <<>> =>
        /\ nesdis.err = ""
        /\ nesdis.warnings = Cardinality(Unparsable(nesdis.file))
        /\ Len(nesdis.features) = Len(nesdis.file)

\* What the ingestion does instead: it fails exactly when the first
\* feature does not parse, before that feature is ingested, and a later
\* feature that does not parse is given the time of the feature before it.
C22_FirstFeatureFails ==
    nesdis.file # <<>> =>
        /\ (nesdis.err # "") = (1 \in Unparsable(nesdis.file))
        /\ nesdis.err # "" =>
              nesdis.err = "UnboundLocalError" /\ nesdis.features = <<>>
        /\ nesdis.err = "" =>
              /\ nesdis.warnings = Cardinality(Unparsable(nesdis.file))
              /\ Len(nesdis.features) = Len(nesdis.file)
              /\ \A i \in Unparsable(nesdis.file) :
                    nesdis.features[i].release_time =
                        nesdis.features[i - 1].release_time

\* --------------------------------- VerticalPlumeRelease, InitElemsFromFile
\* The two classes keep the older interface of a release:
\* num_elements_to_release and set_newparticle_positions.  Neither class
\* nor Release assigns num_released before it is read.

\* The plume data offered to the constructor: the elements each coordinate
\* of the plume releases per second
PlumeDataArgs == {<<1>>, <<1, 2>>, <<0, 1>>}

\* PlumeGenerator: the coordinates of the plume (numbered), the rate of
\* each, and the interval of the release
PlumeGenerator(rt, ert, plume_data) ==
    [coords |-> [i \in 1 .. Len(plume_data) |-> i], rates |-> plume_data,
     release_time |-> rt, end_release_time |-> ert]

\* PlumeGenerator.elems_in_range: for each coordinate the elements released
\* in [t0, t1], its rate times the part of the window inside the release
elems_in_range(gen, t0, t1) ==
    LET lo == IF t0 > gen.release_time THEN t0 ELSE gen.release_time
        hi == IF t1 < gen.end_release_time THEN t1 ELSE gen.end_release_time
        overlap == IF hi > lo THEN hi - lo ELSE 0
    IN  [i \in 1 .. Len(gen.rates) |-> gen.rates[i] * overlap]

\* VerticalPlumeRelease(release_time, start_position, plume_data,
\*                      end_release_time, **kwargs): end_release_time goes
\* to the generator, Release.__init__ is not given one
ConstructVerticalPlumeRelease ==
    /\ life = "none"
    /\ \E rt \in StartTimes, ert \in EndTimes, pos \in Positions,
          plume_data \in PlumeDataArgs, ne \in {None, Some(MaxElems)} :
          LET r == ReleaseInit(Some(rt), ne, None, None, None, None, 0)
          IN  /\ Constructed("VerticalPlumeRelease", r,
                             CtorArgs(Some(rt), ne, None, Some(ert)))
              /\ start_position' = IF r.err = "" THEN Some(pos) ELSE None
              /\ plume_gen' = IF r.err = ""
                              THEN Some(PlumeGenerator(rt, ert, plume_data))
                              ELSE None
              /\ UNCHANGED <<_end_position, features, _init_data,
                             self_num_released>>

\* The records NetCDFOutput.read_data returns: the rows of the arrays and
\* current_time_stamp
Snapshots ==
    {[rows |-> rows, current_time_stamp |-> t] :
        rows \in {<<Row("A", <<1, 1>>, <<1, 1>>)>>,
                  <<Row("A", <<1, 2>>, <<1, 1>>), Row("B", <<1, 1>>, <<1, 1>>)>>},
        t \in StartTimes}

\* InitElemsFromFile(filename, release_time): release_time defaults to the
\* time stamp of the record, num_elements is the number of its rows
ConstructInitElemsFromFile ==
    /\ life = "none"
    /\ \E file \in Snapshots, rt \in OptStartTimes :
          LET t == IF IsNone(rt) THEN Some(file.current_time_stamp) ELSE rt
              r == ReleaseInit(t, Some(Len(file.rows)), None, None, None,
                               Some(0), 0)
          IN  /\ Constructed("InitElemsFromFile", r,
                             CtorArgs(rt, Some(Len(file.rows)), None, None))
              /\ _init_data' = IF r.err = "" THEN Some(file.rows) ELSE None
              /\ UNCHANGED <<start_position, _end_position, features,
                             plume_gen, self_num_released>>

\* VerticalPlumeRelease._plume_elem_coords: each coordinate as many times
\* as its count for [current, current + step]
RECURSIVE Repeated(_, _)
Repeated(coords, counts) ==
    IF coords = <<>> \/ counts = <<>> THEN <<>>
    ELSE [k \in 1 .. Head(counts) |-> Head(coords)] \o
         Repeated(Tail(coords), Tail(counts))

_plume_elem_coords(current, step) ==
    Repeated(Val(plume_gen).coords,
             elems_in_range(Val(plume_gen), current, current + step))

\* num_elements_to_release(current_time, time_step): the number returned
\* and the exception raised.  InitElemsFromFile calls the method of its
\* base class first, which has none of that name.
num_elements_to_release(current, step) ==
    IF cls = "VerticalPlumeRelease"
    THEN [n |-> Len(_plume_elem_coords(current, step)), err |-> ""]
    ELSE [n |-> 0, err |-> "AttributeError"]

\* VerticalPlumeRelease.set_newparticle_positions on the arrays `rows`:
\* the arrays, the attribute num_released and the exception it leaves
PlumeSetNewparticlePositions(rows, num_new_particles, current, step) ==
    LET coords == _plume_elem_coords(current, step)
        sl     == Slice(Len(rows), Len(coords))
    IN  IF Len(coords) # num_new_particles
        THEN [data |-> rows, num_released |-> self_num_released,
              err |-> "RuntimeError"]
        ELSE IF IsNone(self_num_released)
        THEN [data |-> rows, num_released |-> self_num_released,
              err |-> "AttributeError"]
        ELSE IF Len(coords) # Cardinality(sl)
        THEN [data |-> rows,
              num_released |-> Some(Val(self_num_released) + num_new_particles),
              err |-> "ValueError"]
        ELSE [data |-> SetPositions(rows, sl, coords),
              num_released |-> Some(Val(self_num_released) + num_new_particles),
              err |-> ""]

\* InitElemsFromFile._set_data_arrays, which the constructor installs as
\* set_newparticle_positions: each array of the record is assigned to the
\* last num_new_particles rows
_set_data_arrays(rows, num_new_particles) ==
    LET val == Val(_init_data)
        sl  == Slice(Len(rows), num_new_particles)
        first == Len(rows) - Cardinality(sl) + 1
    IN  IF Len(val) > 0 /\ ~Broadcasts(Len(val), Cardinality(sl))
        THEN [data |-> rows, num_released |-> self_num_released,
              err |-> "ValueError"]
        ELSE [data |-> [i \in 1 .. Len(rows) |->
                           IF i \in sl
                           THEN IF Len(val) = 1 THEN val[1]
                                ELSE val[i - first + 1]
                           ELSE rows[i]],
              num_released |-> _num_elements, err |-> ""]

\* set_newparticle_positions as the instance's class defines it
set_newparticle_positions(rows, num_new_particles, current, step) ==
    IF cls = "VerticalPlumeRelease"
    THEN PlumeSetNewparticlePositions(rows, num_new_particles, current, step)
    ELSE _set_data_arrays(rows, num_new_particles)

OlderClasses == {"VerticalPlumeRelease", "InitElemsFromFile"}

\* release.set_newparticle_positions(n, current_time, time_step, arrays)
\* after the caller has appended n rows to its arrays.  The record of the
\* call keeps n, the number of elements the release computes for the
\* window, and how many rows the arrays had before.
SetNewparticlePositions ==
    /\ life = "live" /\ cls \in OlderClasses
    /\ \E n \in 0 .. MaxElems, t \in StartTimes, dt \in TimeSteps :
          LET rows == data \o [i \in 1 .. n |-> NewRow]
              r    == set_newparticle_positions(rows, n, t, dt)
              due  == IF cls = "VerticalPlumeRelease"
                      THEN Len(_plume_elem_coords(t, dt))
                      ELSE Val(_num_elements)
          IN  /\ Len(rows) <= MaxRows
              /\ data' = r.data
              /\ self_num_released' = r.num_released
              /\ last' = Op("set_newparticle_positions",
                            [n |-> n, due |-> due, t |-> t, dt |-> dt,
                             before |-> Len(data)], r.err)
    /\ UNCHANGED <<life, config, derived, num_released, current_time,
                   time_step, aborted, completed, nesdis, plume_gen,
                   _init_data>>

\* The two classes in the hands of a caller: constructed, prepared, given
\* new rows to position, rewound.
NextOlder ==
    \/ ConstructVerticalPlumeRelease
    \/ ConstructInitElemsFromFile
    \/ SetNewparticlePositions
    \/ PrepareForModelRun
    \/ Rewind

SpecOlder == Init /\ [][NextOlder]_vars

\* C23: for the plume release, num_elements_to_release(t, dt) is the sum
\* of the generator's counts for [t, t + dt], and positioning `count` new
\* elements writes each coordinate, repeated by its count, to the last
\* count rows; when count differs from the sum an error is raised and no
\* position is written.
C23_PlumeReplay ==
    (life = "live" /\ cls = "VerticalPlumeRelease") =>
        /\ \A t \in QueryTimes, dt \in TimeSteps :
              LET q == num_elements_to_release(t, dt)
              IN  /\ q.err = ""
                  /\ q.n = SumSeq(elems_in_range(Val(plume_gen), t, t + dt))
        /\ last.op = "set_newparticle_positions" =>
              LET coords == _plume_elem_coords(last.args.t, last.args.dt)
                  n      == last.args.n
              IN  IF n # last.args.due
                  THEN /\ last.err # ""
                       /\ \A i \in last.args.before + 1 .. Len(data) :
                             IsNone(data[i].positions)
                  ELSE /\ last.err = ""
                       /\ \A k \in 1 .. n :
                             data[Len(data) - n + k].positions = coords[k]

\* What holds of the plume release: the number of elements to release is
\* the sum of the counts, a count that differs from it raises RuntimeError,
\* no call writes a position, and prepare_for_model_run leaves the
\* instance unprepared, so that num_elements_after_time returns 0.
C23_NothingPositioned ==
    (life = "live" /\ cls = "VerticalPlumeRelease") =>
        /\ \A t \in QueryTimes, dt \in TimeSteps :
              LET q == num_elements_to_release(t, dt)
              IN  /\ q.err = ""
                  /\ q.n = SumSeq(elems_in_range(Val(plume_gen), t, t + dt))
        /\ \A i \in 1 .. Len(data) : IsNone(data[i].positions)
        /\ last.op = "set_newparticle_positions" =>
              last.err = IF last.args.n # last.args.due THEN "RuntimeError"
                         ELSE "AttributeError"
        /\ ~_prepared
        /\ \A t \in QueryTimes, dt \in TimeSteps :
              num_elements_after_time(t, dt) = 0

\* C24: the file-replay release reports no element before release_time,
\* all the elements of its record from release_time on until they have
\* been initialised, and none after that.
C24_AllInFirstStep ==
    (life = "live" /\ cls = "InitElemsFromFile") =>
        \A t \in QueryTimes, dt \in TimeSteps :
            LET q == num_elements_to_release(t, dt)
            IN  /\ q.err = ""
                /\ q.n = IF t < release_time THEN 0
                         ELSE IF self_num_released = _num_elements THEN 0
                         ELSE Val(_num_elements)

\* What holds of the file-replay release: every query raises, before and
\* after the rows were assigned, and prepare_for_model_run leaves the
\* instance unprepared, so that num_elements_after_time returns 0.
C24_EveryQueryRaises ==
    (life = "live" /\ cls = "InitElemsFromFile") =>
        /\ ~_prepared
        /\ \A t \in QueryTimes, dt \in TimeSteps :
              /\ num_elements_to_release(t, dt).err = "AttributeError"
              /\ num_elements_after_time(t, dt) = 0

\* C25: nothing of a run survives rewind(): the derived state is cleared
\* and the instance holds no running count, so that the run prepared next
\* answers its queries as the first run did.
C25_NothingSurvivesRewind ==
    (life = "live" /\ last.op = "rewind") =>
        /\ ~_prepared /\ IsNone(_release_ts)
        /\ IsNone(self_num_released)

\* What holds of Release, PointLineRelease and SpatialRelease: the derived
\* state of a prepared instance is what prepare_for_model_run computes
\* from the configuration and ts alone, whatever runs came before.
C25_DerivedFromConfiguration ==
    (Prepared /\ cls \in Classes) =>
        /\ ~IsNone(time_step)
        /\ \E strict \in BOOLEAN :
              prepare_for_model_run(Val(time_step), strict) =
                  [d |-> Derived, err |-> ""]

\* A prepared instance whose release takes one timestep
SingleStep == Prepared /\ get_num_release_time_steps(Val(time_step)) = 1

LoopSteps == MaxClock + 2

\* The counts a loop from t0 in steps of dt is given
Loop(t0, dt) ==
    [k \in 1 .. LoopSteps |-> num_elements_after_time(t0 + (k - 1) * dt, dt)]

\* C27: the counts a prepared release returns to a loop t0, t0 + dt, ...
\* never decrease, never exceed max_release and equal max_release from
\* the first step with t >= release_time and t + dt >= end_release_time
\* on, so that the differences the driver releases add up to max_release;
\* the driver of the model has released the count of its last step.
C27_DriverLoop ==
    (Prepared /\ cls \in Classes) =>
        LET max == TotalRelease(Val(time_step))
        IN  /\ \A t0 \in QueryTimes, dt \in TimeSteps :
                  LET c == Loop(t0, dt)
                  IN  /\ \A k \in 1 .. LoopSteps - 1 : c[k] <= c[k + 1]
                      /\ \A k \in 1 .. LoopSteps :
                            /\ 0 <= c[k] /\ c[k] <= max
                            /\ (t0 + (k - 1) * dt >= release_time
                                /\ t0 + k * dt >= end_release_time)
                                   => c[k] = max
                      /\ c[LoopSteps] = max
                      /\ c[1] + SumSeq([k \in 1 .. LoopSteps - 1 |->
                                           c[k + 1] - c[k]]) = max
            /\ last.op = "step" =>
                  /\ num_released =
                         num_elements_after_time(current_time - Val(time_step),
                                                 Val(time_step))
                  /\ num_released <= max

\* C27 witness: the driver has released the three elements of a release in
\* three steps of one, one and one element
C27_Witness ==
    /\ Prepared /\ cls \in Classes /\ last.op = "step"
    /\ release_duration = 3
    /\ time_step = Some(1)
    /\ _num_elements = Some(3)
    /\ num_released = 3
    /\ Loop(release_time, 1)[1] = 1
    /\ Loop(release_time, 1)[2] = 2
    /\ Loop(release_time, 1)[3] = 3

\* The arrays a caller may hand to initialize_LEs: the driver's rows with
\* up to MaxRows rows in all, the added ones blank
CallerArrays ==
    {data \o [i \in 1 .. extra |-> NewRow] :
        extra \in 0 .. (MaxRows - Len(data))}

\* C28: initialize_LEs(count, data, t, dt) changes no row but the last
\* count rows of the arrays, for every count from 0 to the number of rows,
\* whether it raises or not; with count = 0 no row is changed.
C28_OnlyLastRows ==
    (life = "live" /\ cls \in Classes) =>
        \A rows \in CallerArrays, dt \in QuerySteps :
        \A count \in 0 .. Len(rows) :
        \A choice \in Choices(count) :
            LET r == initialize_LEs(rows, count, current_time, dt, choice)
            IN  /\ Len(r.data) = Len(rows)
                /\ \A i \in 1 .. Len(rows) - count : r.data[i] = rows[i]

\* C28 witness: with two rows filled by earlier steps, a call with count 1
\* succeeds and changes the second row alone
C28_Witness ==
    /\ Prepared /\ cls = "PointLineRelease" /\ ~aborted
    /\ Len(data) = 2
    /\ ~IsNone(data[1].positions)
    /\ LET r == initialize_LEs(data, 1, current_time, 1, <<>>)
       IN  /\ r.err = ""
           /\ r.data[2] # data[2]
           /\ r.data[1] = data[1]

RunSteps == 1 .. get_num_release_time_steps(Val(time_step))

\* The time at which step k of that run begins
StepTime(k) == release_time + (k - 1) * Val(time_step)

\* The number of elements step k initialises: the difference of successive
\* results of num_elements_after_time
BatchSize(k) ==
    num_elements_after_time(StepTime(k), Val(time_step))
    - (IF k = 1 THEN 0
       ELSE num_elements_after_time(StepTime(k - 1), Val(time_step)))

\* The positions PointLineRelease.initialize_LEs writes in step k
Batch(k) ==
    LET n == BatchSize(k)
        r == PointLineReleaseInitializeLEs([i \in 1 .. n |-> NewRow], n,
                                           StepTime(k), Val(time_step))
    IN  [i \in 1 .. n |-> r.data[i].positions]

\* A prepared PointLineRelease with a duration, of no more elements than
\* the arrays of the model hold
TimeVaryingLine ==
    /\ Prepared /\ cls = "PointLineRelease"
    /\ release_duration > 0
    /\ TotalRelease(Val(time_step)) <= MaxRows

\* C30: in a run of a time-varying PointLineRelease from release_time in
\* steps of ts, the first element released is at start_position, the last
\* one at end_position, and the batch of each step begins where the batch
\* of the step before ended.
C30_BatchesChain ==
    TimeVaryingLine =>
        LET N == get_num_release_time_steps(Val(time_step))
        IN  /\ \A k \in RunSteps : BatchSize(k) >= 1
            /\ Batch(1)[1] = Coord(Val(start_position))
            /\ Batch(N)[BatchSize(N)] = Coord(Val(end_position))
            /\ \A k \in RunSteps \ {1} :
                  Batch(k)[1] = Batch(k - 1)[BatchSize(k - 1)]

\* What holds of the run: every step releases at least one element, the
\* first element is at start_position, each batch begins at the source
\* position of its step's time, and a batch of two or more elements ends
\* at the source position of the next step's time (end_position in the
\* last step) while a batch of one element is at where the step begins.
C30_BatchesBeginAtSource ==
    TimeVaryingLine =>
        LET N  == get_num_release_time_steps(Val(time_step))
            ts == Val(time_step)
            source(t) == at(Val(_pos_ts).time, Val(_pos_ts).data, t)
        IN  /\ \A k \in RunSteps :
                  /\ BatchSize(k) >= 1
                  /\ Batch(k)[1] = source(StepTime(k))
                  /\ BatchSize(k) >= 2 =>
                        Batch(k)[BatchSize(k)] = source(StepTime(k) + ts)
            /\ Batch(1)[1] = Coord(Val(start_position))
            /\ source(StepTime(N) + ts) = Coord(Val(end_position))

=============================================================================
